---- MODULE Spec2Model ----
\* Batch ETL pipeline: CSV price-batch ingestion with a check point
\* (csv_reader.py), the connector, price store and NOK view of db_connector.py,
\* the rate normalisation of api_processor.py and the sequence of main.py.
EXTENDS Integers, Sequences, FiniteSets, TLC

VARIABLES
    listing,        \* os.listdir(batch_data_dir): the directory listing, in listing order
    files,          \* file name -> the raw rows of that csv file
    check_point,    \* CsvProcessor.check_point
    pc,             \* position inside process_csvs: idle / file / rows / raised
    run,            \* number of process_csvs calls started on this CsvProcessor
    ordered_csvs,   \* local ordered_csvs of process_csvs (result of _order_csvs)
    fi,             \* index of the current file in ordered_csvs
    df,             \* the parsed data frame of the current file
    ri,             \* index of the current row of df
    date_list,      \* local date_list of process_csvs
    returns,        \* what each completed process_csvs call returned
    log,            \* one entry per row iteration of the loop at lines 67-86
    relisting,      \* a second os.listdir enumeration of the same directory
    reordered,      \* _order_csvs of the second enumeration
    opc,            \* position of the _order_csvs caller
    payload,        \* what _get_historical_rate returns: the parsed JSON, or None
    hist_df,        \* the data frame process_hist_rates returns
    rates_df,       \* the data frame process_hist_rate_NOK returns
    hpc,            \* position inside process_hist_rate_NOK
    mpc,            \* position inside main
    list_of_dates,  \* local list_of_dates of main
    di,             \* index of the current date of the loop at main.py lines 59-61
    trace,          \* the steps main has completed, in order
    error,          \* the exception that ended main, if one did
    ncall,          \* the normalisation function called, with its argument
    njson,          \* what its _get_* request returned: the parsed JSON, or None
    ndf,            \* the data frame it returned
    npc,            \* position of the call
    connection,     \* DBConnector._connection: None, an open or a closed connection
    item_prices,    \* the rows of table public.item_prices
    applied,        \* id -> the row of the last upsert statement that succeeded for it
    last_call,      \* the last call on the DBConnector and what it did
    cc_rates,       \* the rows of table currency.currency_conversion_rate
    view,           \* the rows a query of view public.item_prices_nok returns
    vpc             \* position of the reader of the view

ingestVars == <<files, check_point, pc, run, fi, df, ri, date_list, returns, log>>
orderVars == <<relisting, reordered, opc>>
apiVars == <<payload, hist_df, rates_df, hpc>>
mainVars == <<mpc, list_of_dates, di, trace, error>>
normVars == <<ncall, njson, ndf, npc>>
dbVars == <<connection, item_prices, applied, last_call>>
viewVars == <<cc_rates, view, vpc>>
otherVars == <<mainVars, normVars, dbVars, viewVars>>
vars == <<listing, ordered_csvs, ingestVars, orderVars, apiVars, otherVars>>

\* what the steps of process_csvs, of the _order_csvs caller and of
\* process_hist_rate_NOK leave alone
outsideIngest == <<orderVars, apiVars, otherVars>>
outsideOrder == <<ingestVars, apiVars, otherVars>>
outsideApi == <<listing, ordered_csvs, ingestVars, orderVars, otherVars>>
outsideNorm == <<listing, ordered_csvs, ingestVars, orderVars, apiVars, mainVars, dbVars,
                 viewVars>>
outsideMain == <<normVars, dbVars, viewVars>>
outsideDb == <<listing, ordered_csvs, ingestVars, orderVars, apiVars, mainVars, normVars,
               viewVars>>
outsideView == <<listing, ordered_csvs, ingestVars, orderVars, apiVars, mainVars, normVars,
                 connection, applied, last_call>>

\* ---------------------------------------------------------------- bounds

\* rows in the batch directory, over all files
MaxRows == 2
\* largest system_timestamp (ticks after the epoch)
MaxTs == 2
\* process_csvs calls on one CsvProcessor
MaxRuns == 2
\* ticks per calendar day
DayTicks == 2
\* names in a directory listing given to _order_csvs
MaxListing == 3

\* ---------------------------------------------------------------- helpers

Range(s) == {s[i] : i \in DOMAIN s}

\* all sequences without repetition over the set S of length at most n
RECURSIVE InjSeqs(_, _)
InjSeqs(S, n) ==
    IF n = 0 THEN {<<>>}
    ELSE LET shorter == InjSeqs(S, n - 1)
         IN shorter \cup UNION {{Append(s, x) : x \in S \ Range(s)} : s \in shorter}

Enumerations(S) == {s \in InjSeqs(S, Cardinality(S)) : Range(s) = S}

\* ---------------------------------------------------------------- file names

Digits == {"0", "1", "2"}

DigitValue(c) == IF c = "0" THEN 0 ELSE IF c = "1" THEN 1 ELSE 2

CsvSuffix == <<".", "c", "s", "v">>

Batch1 == <<"b", "1">> \o CsvSuffix
Batch2 == <<"b", "2">> \o CsvSuffix
Batch01 == <<"b", "0", "1">> \o CsvSuffix
Batch10 == <<"b", "1", "0">> \o CsvSuffix
OtherCsv == <<"o">> \o CsvSuffix
BareCsv == CsvSuffix
NotesTxt == <<"b", "1", ".", "t", "x", "t">>
BackupCsv == <<"b", "2">> \o CsvSuffix \o <<"~">>

FileNames == {Batch1, Batch2, Batch01, Batch10, OtherCsv, BareCsv, NotesTxt, BackupCsv}

\* float("inf")
Inf == [inf |-> TRUE, n |-> 0]

Int_(n) == [inf |-> FALSE, n |-> n]

\* a < b on batch numbers, where either may be float("inf")
KeyLess(a, b) == ~a.inf /\ (b.inf \/ a.n < b.n)

\* number of digit characters at the end of s
RECURSIVE TrailingDigits(_)
TrailingDigits(s) ==
    IF s = <<>> \/ s[Len(s)] \notin Digits THEN 0
    ELSE 1 + TrailingDigits(SubSeq(s, 1, Len(s) - 1))

\* int() of a string of digits
RECURSIVE IntOfDigits(_)
IntOfDigits(s) ==
    IF s = <<>> THEN 0
    ELSE 10 * IntOfDigits(SubSeq(s, 1, Len(s) - 1)) + DigitValue(s[Len(s)])

\* re.search(r"(\d+)\.csv$", filename): int(group(1)) or float("inf")
GetBatchNumber(filename) ==
    LET n == Len(filename)
        hasCsv == n >= 4 /\ SubSeq(filename, n - 3, n) = CsvSuffix
        stem == IF hasCsv THEN SubSeq(filename, 1, n - 4) ELSE <<>>
        k == TrailingDigits(stem)
    IN IF hasCsv /\ k >= 1
       THEN Int_(IntOfDigits(SubSeq(stem, Len(stem) - k + 1, Len(stem))))
       ELSE Inf

\* position at which a stable sort places x in the sorted sequence s:
\* after every element whose key is not greater than the key of x
RECURSIVE InsertStable(_, _)
InsertStable(s, x) ==
    IF s = <<>> THEN <<x>>
    ELSE IF KeyLess(GetBatchNumber(x), GetBatchNumber(Head(s)))
         THEN <<x>> \o s
         ELSE <<Head(s)>> \o InsertStable(Tail(s), x)

\* sorted(csv_file_list, key=self._get_batch_number)
RECURSIVE SortedByBatchNumber(_)
SortedByBatchNumber(s) ==
    IF s = <<>> THEN <<>>
    ELSE InsertStable(SortedByBatchNumber(SubSeq(s, 1, Len(s) - 1)), s[Len(s)])

\* variant: the listing as os.listdir gave it
OrderCsvsUnsorted(csv_file_list) == csv_file_list

OrderCsvs(csv_file_list) == SortedByBatchNumber(csv_file_list)

\* ---------------------------------------------------------------- timestamps

\* datetime.datetime(1970, 1, 1, 0, 0, 0, tzinfo=timezone.utc), in ticks
Epoch == 0

\* a timestamp as written in a csv file: a wall-clock reading with its UTC
\* offset, or text that is no timestamp at all
Stamp(wall, off) == [ok |-> TRUE, wall |-> wall, off |-> off]

Malformed == [ok |-> FALSE, wall |-> 0, off |-> 0]

\* pd.to_datetime(column, utc=True) on one parsable value: the UTC instant
ToDatetimeUtc(text) == text.wall - text.off

\* .dt.date of a UTC instant: its calendar day
DtDate(instant) == instant \div DayTicks

\* ---------------------------------------------------------------- rows

\* a currency cell: a string, or the float NaN pandas reads from an empty cell
Str(chars) == [isstr |-> TRUE, chars |-> chars]

NaN == [isstr |-> FALSE, chars |-> <<>>]

NOK == Str(<<"N", "O", "K">>)

Currencies == {NOK, Str(<<"N", "O">>), NaN}

BatchFiles == {Batch1, Batch2}

\* rows whose updated_at equals their system_timestamp, any currency cell
IngestRows ==
    {[currency |-> c, updated_at |-> Stamp(t, 0), system_timestamp |-> Stamp(t, 0)] :
        c \in Currencies, t \in 0..MaxTs}

\* updated_at late on day 0, early on day 1 in UTC, and early on day 1 in a
\* zone one tick ahead of UTC (still day 0 in UTC)
UpdatedTexts == {Stamp(DayTicks - 1, 0), Stamp(DayTicks, 0), Stamp(DayTicks, 1)}

\* rows with a valid currency, any updated_at, any or no system_timestamp
DateRows ==
    {[currency |-> NOK, updated_at |-> u, system_timestamp |-> s] :
        u \in UpdatedTexts, s \in {Stamp(t, 0) : t \in 0..MaxTs} \cup {Malformed}}

\* ---------------------------------------------------------------- price store

\* variant: no length check before the statement
UpsertWithoutLengthCheck(currency, dbOk) ==
    IF ~currency.isstr THEN "raised"
    ELSE IF dbOk THEN "executed" ELSE "dberror"

\* DBConnector.upsert_record_item_prices as process_csvs sees it:
\*   raised    len(currency) raises TypeError (currency is not a string)
\*   rejected  len(currency) != 3: returns False, no statement executed
\*   dberror   _execute_query caught a database Error and returned normally
\*   executed  the INSERT ... ON CONFLICT statement was executed
UpsertRecordItemPrices(currency, dbOk) ==
    IF ~currency.isstr THEN "raised"
    ELSE IF Len(currency.chars) # 3 THEN "rejected"
    ELSE IF dbOk THEN "executed" ELSE "dberror"

\* ---------------------------------------------------------------- process_csvs

\* variant: no comparison with the check point
PassesAlways(system_timestamp, cp) == TRUE

\* variant: >= in place of >
PassesAtOrAbove(system_timestamp, cp) == system_timestamp >= cp

\* row_tuple.system_timestamp > self.check_point
PassesCheckPoint(system_timestamp, cp) == system_timestamp > cp

\* variant: assigned only when the statement was executed
CheckPointOnlyIfExecuted(cp, system_timestamp, outcome) ==
    IF outcome = "executed" THEN system_timestamp ELSE cp

\* self.check_point after the try block: assigned unless the call raised
NextCheckPoint(cp, system_timestamp, outcome) ==
    IF outcome \in {"skipped", "raised"} THEN cp ELSE system_timestamp

\* Series.unique(): the distinct values in order of first appearance
RECURSIVE Unique(_)
Unique(s) ==
    IF s = <<>> THEN <<>>
    ELSE LET u == Unique(SubSeq(s, 1, Len(s) - 1))
             x == s[Len(s)]
         IN IF x \in Range(u) THEN u ELSE Append(u, x)

RECURSIVE SortedSeqOfSet(_)
SortedSeqOfSet(S) ==
    IF S = {} THEN <<>>
    ELSE LET m == CHOOSE x \in S : \A y \in S : x <= y
         IN <<m>> \o SortedSeqOfSet(S \ {m})

\* sorted(list(set(date_list)))
SortedDistinct(dates) == SortedSeqOfSet(Range(dates))

ParsableRow(raw) == raw.updated_at.ok /\ raw.system_timestamp.ok

\* variant: the calendar day of the wall-clock reading, the offset ignored
DateOfLocal(raw) == DtDate(raw.updated_at.wall)

\* df["updated_at"].dt.date of one row
DateOf(raw) == DtDate(ToDatetimeUtc(raw.updated_at))

\* one row of df after the three pd.to_datetime conversions
ParseRow(raw) ==
    [currency |-> raw.currency,
     updated_date |-> DateOf(raw),
     system_timestamp |-> ToDatetimeUtc(raw.system_timestamp)]

\* the dates of the rows of raw at the positions in keep, in row order
RECURSIVE DatesAt(_, _)
DatesAt(raw, keep) ==
    IF raw = <<>> THEN <<>>
    ELSE LET n == Len(raw)
             rest == DatesAt(SubSeq(raw, 1, n - 1), keep)
         IN IF n \in keep THEN Append(rest, DateOf(raw[n])) ELSE rest

\* variant: only the dates of the rows above the check point
DatesOfNewRows(raw) ==
    Unique(DatesAt(raw, {i \in DOMAIN raw :
                            ToDatetimeUtc(raw[i].system_timestamp) > check_point}))

\* df["updated_at"].dt.date.unique()
DatesOfFile(raw) == Unique(DatesAt(raw, DOMAIN raw))

None == [none |-> TRUE]

MainUnused ==
    /\ mpc = "unused"
    /\ list_of_dates = <<>>
    /\ di = 0
    /\ trace = <<>>
    /\ error = "none"

NormUnused ==
    /\ ncall = [fn |-> "none", arg |-> "none"]
    /\ njson = None
    /\ ndf = <<>>
    /\ npc = "unused"

\* a DBConnector just constructed (lines 11-24) over an empty price table
DbUnused ==
    /\ connection = "None"
    /\ item_prices = {}
    /\ applied = <<>>
    /\ last_call = [op |-> "none"]

ViewUnused ==
    /\ cc_rates = {}
    /\ view = {}
    /\ vpc = "unused"

OthersUnused == MainUnused /\ NormUnused /\ DbUnused /\ ViewUnused

ApiUnused ==
    /\ payload = None
    /\ hist_df = <<>>
    /\ rates_df = <<>>
    /\ hpc = "unused"

NoFiles == [f \in BatchFiles |-> <<>>]

\* a CsvProcessor just constructed over a batch directory holding some of
\* the batch files, with rows drawn from Rows
IngestInit(Rows) ==
    /\ \E n1 \in 0..MaxRows :
         \E n2 \in 0..(MaxRows - n1) :
           \E r1 \in [1..n1 -> Rows], r2 \in [1..n2 -> Rows] :
             files = [f \in BatchFiles |-> IF f = Batch1 THEN r1 ELSE r2]
    /\ \E present \in SUBSET BatchFiles :
         /\ \A f \in BatchFiles \ present : files[f] = <<>>
         /\ listing \in Enumerations(present)
    /\ check_point = Epoch
    /\ pc = "idle"
    /\ run = 0
    /\ ordered_csvs = <<>>
    /\ fi = 0
    /\ df = <<>>
    /\ ri = 0
    /\ date_list = <<>>
    /\ returns = <<>>
    /\ log = <<>>
    /\ relisting = <<>>
    /\ reordered = <<>>
    /\ opc = "unused"
    /\ ApiUnused
    /\ OthersUnused

\* lines 58-59: date_list = [], ordered_csvs = self._order_csvs()
ProcessCsvsBegin ==
    /\ pc = "idle"
    /\ run < MaxRuns
    /\ run' = run + 1
    /\ date_list' = <<>>
    /\ ordered_csvs' = OrderCsvs(listing)
    /\ fi' = 1
    /\ pc' = "file"
    /\ UNCHANGED <<listing, files, check_point, df, ri, returns, log, outsideIngest>>

\* lines 60-66: read the next file, convert its timestamp columns (a value
\* that is no timestamp makes pd.to_datetime raise out of process_csvs) and
\* extend date_list
ReadCsv ==
    /\ pc = "file"
    /\ fi <= Len(ordered_csvs)
    /\ LET raw == files[ordered_csvs[fi]]
       IN IF \E i \in DOMAIN raw : ~ParsableRow(raw[i])
          THEN /\ pc' = "raised"
               /\ UNCHANGED <<df, ri, fi, date_list>>
          ELSE /\ df' = [i \in DOMAIN raw |-> ParseRow(raw[i])]
               /\ date_list' = date_list \o DatesOfFile(raw)
               /\ IF raw = <<>>
                  THEN /\ fi' = fi + 1
                       /\ pc' = "file"
                       /\ ri' = 0
                  ELSE /\ fi' = fi
                       /\ pc' = "rows"
                       /\ ri' = 1
    /\ UNCHANGED <<listing, files, check_point, run, ordered_csvs, returns, log, outsideIngest>>

\* lines 67-86: one iteration of the loop over df.itertuples()
ProcessRow ==
    /\ pc = "rows"
    /\ ri <= Len(df)
    /\ \E dbOk \in BOOLEAN :
         LET row == df[ri]
             outcome == IF PassesCheckPoint(row.system_timestamp, check_point)
                        THEN UpsertRecordItemPrices(row.currency, dbOk)
                        ELSE "skipped"
             after == NextCheckPoint(check_point, row.system_timestamp, outcome)
         IN /\ check_point' = after
            /\ log' = Append(log, [run |-> run, file |-> ordered_csvs[fi], idx |-> ri,
                                   ts |-> row.system_timestamp, outcome |-> outcome,
                                   before |-> check_point, after |-> after])
    /\ IF ri < Len(df)
       THEN /\ ri' = ri + 1
            /\ UNCHANGED <<fi, pc>>
       ELSE /\ ri' = 0
            /\ fi' = fi + 1
            /\ pc' = "file"
    /\ UNCHANGED <<listing, files, run, ordered_csvs, df, date_list, returns, outsideIngest>>

\* lines 87-90: return sorted(list(set(date_list)))
ProcessCsvsReturn ==
    /\ pc = "file"
    /\ fi > Len(ordered_csvs)
    /\ returns' = Append(returns, [run |-> run, dates |-> SortedDistinct(date_list),
                                   check_point |-> check_point])
    /\ pc' = "idle"
    /\ UNCHANGED <<listing, files, check_point, run, ordered_csvs, fi, df, ri, date_list,
                   log, outsideIngest>>

IngestNext == ProcessCsvsBegin \/ ReadCsv \/ ProcessRow \/ ProcessCsvsReturn

Init == IngestInit(IngestRows)

Next == IngestNext

\* ingestion of rows that differ in currency cell and system_timestamp
Spec == Init /\ [][Next]_vars

DatesInit == IngestInit(DateRows)

DatesNext == IngestNext

\* ingestion of rows that differ in updated_at and system_timestamp
SpecDates == DatesInit /\ [][DatesNext]_vars

\* ---------------------------------------------------------------- _order_csvs alone

OrderInit ==
    /\ listing \in InjSeqs(FileNames, MaxListing)
    /\ relisting \in Enumerations(Range(listing))
    /\ opc = "start"
    /\ ordered_csvs = <<>>
    /\ reordered = <<>>
    /\ files = NoFiles
    /\ check_point = Epoch
    /\ pc = "unused"
    /\ run = 0
    /\ fi = 0
    /\ df = <<>>
    /\ ri = 0
    /\ date_list = <<>>
    /\ returns = <<>>
    /\ log = <<>>
    /\ ApiUnused
    /\ OthersUnused

\* _order_csvs called once on each of two enumerations of the same directory
OrderBoth ==
    /\ opc = "start"
    /\ ordered_csvs' = OrderCsvs(listing)
    /\ reordered' = OrderCsvs(relisting)
    /\ opc' = "done"
    /\ UNCHANGED <<listing, relisting, outsideOrder>>

OrderNext == OrderBoth

SpecOrder == OrderInit /\ [][OrderNext]_vars

\* ---------------------------------------------------------------- process_hist_rate_NOK

\* most members in the "rates" object of a response
MaxRates == 3
\* largest rate value in a response
MaxRate == 2

Codes == {"NOK", "EUR", "USD"}

ResponseDates == {0, 1}

RECURSIVE Gcd(_, _)
Gcd(a, b) == IF b = 0 THEN a ELSE Gcd(b, a % b)

\* a / b on floats: the quotient (held exactly, in lowest terms), inf for a
\* non-zero value over zero, nan for zero over zero
FloatDiv(a, b) ==
    IF b = 0 THEN [kind |-> IF a = 0 THEN "nan" ELSE "inf", num |-> 0, den |-> 1]
    ELSE LET g == Gcd(a, b) IN [kind |-> "finite", num |-> a \div g, den |-> b \div g]

\* variant: a repeated key keeps the value of its first member
RECURSIVE JsonObjectFirstValue(_)
JsonObjectFirstValue(members) ==
    IF members = <<>> THEN <<>>
    ELSE LET n == Len(members)
             d == JsonObjectFirstValue(SubSeq(members, 1, n - 1))
             m == members[n]
         IN IF \E i \in DOMAIN d : d[i].code = m.code THEN d ELSE Append(d, m)

\* the dict json.loads builds from the members of an object: one entry per
\* key, at the place of the key's first member, with the value of its last
RECURSIVE JsonObject(_)
JsonObject(members) ==
    IF members = <<>> THEN <<>>
    ELSE LET n == Len(members)
             d == JsonObject(SubSeq(members, 1, n - 1))
             m == members[n]
         IN IF \E i \in DOMAIN d : d[i].code = m.code
            THEN [i \in DOMAIN d |-> IF d[i].code = m.code THEN m ELSE d[i]]
            ELSE Append(d, m)

\* drop_duplicates(subset=[key], keep="last")
RECURSIVE DropDuplicatesKeepLast(_)
DropDuplicatesKeepLast(rows) ==
    IF rows = <<>> THEN <<>>
    ELSE LET rest == DropDuplicatesKeepLast(Tail(rows))
         IN IF \E i \in DOMAIN rest : rest[i].currency_code = Head(rows).currency_code
            THEN rest
            ELSE <<Head(rows)>> \o rest

\* process_hist_rates on a response: one row per entry of its rates
ProcessHistRates(output_json) ==
    LET rates == JsonObject(output_json.rates)
        frame == [i \in DOMAIN rates |->
                    [currency_code |-> rates[i].code,
                     rate_EUR |-> rates[i].rate,
                     date |-> output_json.date]]
    IN DropDuplicatesKeepLast(frame)

\* df[df["currency_code"] == "NOK"]["rate_EUR"]
NokRates(frame) ==
    LET idx == {i \in DOMAIN frame : frame[i].currency_code = "NOK"}
    IN SortedSeqOfSet(idx)

\* variant: .iloc[0] of the whole frame in place of its NOK rows
RebaseOnFirstRow(frame) ==
    LET first_rate_eur == frame[1].rate_EUR
    IN [i \in DOMAIN frame |->
          [target_currency_code |-> frame[i].currency_code,
           date |-> frame[i].date,
           base_currency_code |-> "NOK",
           rate |-> FloatDiv(frame[i].rate_EUR, first_rate_eur)]]

\* lines 146-152 on a frame that has a NOK row: add base_currency_code and
\* rate, drop rate_EUR, rename currency_code
RebaseNOK(frame) ==
    LET nok_rate_eur == frame[NokRates(frame)[1]].rate_EUR
        based == [i \in DOMAIN frame |->
                    [f \in DOMAIN frame[i] \cup {"base_currency_code", "rate"} |->
                        IF f = "base_currency_code" THEN "NOK"
                        ELSE IF f = "rate" THEN FloatDiv(frame[i].rate_EUR, nok_rate_eur)
                        ELSE frame[i][f]]]
        dropped == [i \in DOMAIN based |->
                      [f \in DOMAIN based[i] \ {"rate_EUR"} |-> based[i][f]]]
    IN [i \in DOMAIN dropped |->
          [f \in (DOMAIN dropped[i] \ {"currency_code"}) \cup {"target_currency_code"} |->
              IF f = "target_currency_code" THEN dropped[i]["currency_code"]
              ELSE dropped[i][f]]]

Members == [code : Codes, rate : 0..MaxRate]

RECURSIVE SeqsUpTo(_, _)
SeqsUpTo(S, n) ==
    IF n = 0 THEN {<<>>}
    ELSE LET shorter == SeqsUpTo(S, n - 1)
         IN shorter \cup {Append(q, x) : q \in shorter, x \in S}

Responses == [date : ResponseDates, rates : SeqsUpTo(Members, MaxRates)]

ApiInit ==
    /\ payload \in Responses \cup {None}
    /\ hist_df = <<>>
    /\ rates_df = <<>>
    /\ hpc = "start"
    /\ OthersUnused
    /\ listing = <<>>
    /\ ordered_csvs = <<>>
    /\ relisting = <<>>
    /\ reordered = <<>>
    /\ opc = "unused"
    /\ files = NoFiles
    /\ check_point = Epoch
    /\ pc = "unused"
    /\ run = 0
    /\ fi = 0
    /\ df = <<>>
    /\ ri = 0
    /\ date_list = <<>>
    /\ returns = <<>>
    /\ log = <<>>

\* line 145: df = self.process_hist_rates(date); subscripting a None
\* response raises TypeError out of process_hist_rate_NOK
CallProcessHistRates ==
    /\ hpc = "start"
    /\ IF payload = None
       THEN /\ hpc' = "raised"
            /\ UNCHANGED hist_df
       ELSE /\ hist_df' = ProcessHistRates(payload)
            /\ hpc' = "rebase"
    /\ UNCHANGED <<payload, rates_df, outsideApi>>

\* lines 146-153: .iloc[0] of an empty selection raises IndexError
Rebase ==
    /\ hpc = "rebase"
    /\ IF NokRates(hist_df) = <<>>
       THEN /\ hpc' = "raised"
            /\ UNCHANGED rates_df
       ELSE /\ rates_df' = RebaseNOK(hist_df)
            /\ hpc' = "returned"
    /\ UNCHANGED <<payload, hist_df, outsideApi>>

ApiNext == CallProcessHistRates \/ Rebase

SpecApi == ApiInit /\ [][ApiNext]_vars

\* ---------------------------------------------------------------- process_currencies, process_base_rates

Names == {"Krone", "Crown"}

Symbols == {"kr", "Kr"}

\* the members of a /currencies response, in the order of the response text
CurrencyMembers == [code : Codes, name : Names, symbol : Symbols]

\* lines 74-80 on a parsed response: one row per entry of the mapping
ProcessCurrencies(currencies_json) ==
    LET d == JsonObject(currencies_json.members)
        df_processed == [i \in DOMAIN d |->
                           [currency_code |-> d[i].code,
                            name |-> d[i].name,
                            symbol |-> d[i].symbol]]
    IN DropDuplicatesKeepLast(df_processed)

\* lines 90-98 on a parsed response: no column holds base_currency
ProcessBaseRates(base_rates_json, base_currency) ==
    LET rates == JsonObject(base_rates_json.rates)
        frame == [i \in DOMAIN rates |->
                    [currency_code |-> rates[i].code,
                     rate |-> rates[i].rate,
                     date |-> base_rates_json.date]]
    IN DropDuplicatesKeepLast(frame)

\* lines 108-117 on a parsed response
ProcessBaseRatesNOK(base_rates_json) ==
    LET rates == JsonObject(base_rates_json.rates)
        frame == [i \in DOMAIN rates |->
                    [currency_code |-> rates[i].code, rate |-> rates[i].rate]]
        df_final == DropDuplicatesKeepLast(frame)
    IN [i \in DOMAIN df_final |->
          [target_currency_code |-> df_final[i].currency_code,
           rate |-> df_final[i].rate,
           date |-> base_rates_json.date,
           base_currency_code |-> "NOK"]]

\* the non-empty sequences among SeqsUpTo(S, n)
NonEmptySeqs(S, n) == SeqsUpTo(S, n) \ {<<>>}

\* a /currencies response: an object with one member per currency
CurrencyPayloads == [members : NonEmptySeqs(CurrencyMembers, MaxRates)]

RatePayloads == [date : ResponseDates, rates : NonEmptySeqs(Members, MaxRates)]

\* one call of a normalisation function, with its argument
NormCalls ==
    {[fn |-> "process_currencies", arg |-> "none"], [fn |-> "process_base_rates_NOK", arg |-> "none"]}
    \cup {[fn |-> "process_base_rates", arg |-> c] : c \in Codes}
    \cup {[fn |-> "process_hist_rates", arg |-> d] : d \in ResponseDates}

NormInit ==
    /\ ncall \in NormCalls
    /\ njson \in (IF ncall.fn = "process_currencies" THEN CurrencyPayloads ELSE RatePayloads)
                 \cup {None}
    /\ ndf = <<>>
    /\ npc = "start"
    /\ listing = <<>>
    /\ ordered_csvs = <<>>
    /\ relisting = <<>>
    /\ reordered = <<>>
    /\ opc = "unused"
    /\ files = NoFiles
    /\ check_point = Epoch
    /\ pc = "unused"
    /\ run = 0
    /\ fi = 0
    /\ df = <<>>
    /\ ri = 0
    /\ date_list = <<>>
    /\ returns = <<>>
    /\ log = <<>>
    /\ ApiUnused
    /\ MainUnused
    /\ DbUnused
    /\ ViewUnused

\* lines 73-80; DataFrame.from_dict(None, orient="index") raises TypeError
CallProcessCurrencies ==
    /\ npc = "start"
    /\ ncall.fn = "process_currencies"
    /\ IF njson = None
       THEN /\ npc' = "raised"
            /\ UNCHANGED ndf
       ELSE /\ ndf' = ProcessCurrencies(njson)
            /\ npc' = "returned"
    /\ UNCHANGED <<ncall, njson, outsideNorm>>

\* lines 89-98; subscripting a None response raises TypeError
CallProcessBaseRates ==
    /\ npc = "start"
    /\ ncall.fn = "process_base_rates"
    /\ IF njson = None
       THEN /\ npc' = "raised"
            /\ UNCHANGED ndf
       ELSE /\ ndf' = ProcessBaseRates(njson, ncall.arg)
            /\ npc' = "returned"
    /\ UNCHANGED <<ncall, njson, outsideNorm>>

\* lines 107-117
CallProcessBaseRatesNOK ==
    /\ npc = "start"
    /\ ncall.fn = "process_base_rates_NOK"
    /\ IF njson = None
       THEN /\ npc' = "raised"
            /\ UNCHANGED ndf
       ELSE /\ ndf' = ProcessBaseRatesNOK(njson)
            /\ npc' = "returned"
    /\ UNCHANGED <<ncall, njson, outsideNorm>>

\* lines 126-135, called on its own
CallProcessHistRatesAlone ==
    /\ npc = "start"
    /\ ncall.fn = "process_hist_rates"
    /\ IF njson = None
       THEN /\ npc' = "raised"
            /\ UNCHANGED ndf
       ELSE /\ ndf' = ProcessHistRates(njson)
            /\ npc' = "returned"
    /\ UNCHANGED <<ncall, njson, outsideNorm>>

NormNext ==
    \/ CallProcessCurrencies
    \/ CallProcessBaseRates
    \/ CallProcessBaseRatesNOK
    \/ CallProcessHistRatesAlone

\* one call of one normalisation function on one response
SpecNorm == NormInit /\ [][NormNext]_vars

\* ---------------------------------------------------------------- main

\* rows of the batch files of a main run: a valid currency, and a
\* system_timestamp that is the updated_at or no timestamp at all
MainRows ==
    {[currency |-> NOK, updated_at |-> Stamp(t, 0),
      system_timestamp |-> IF parsable THEN Stamp(t, 0) ELSE Malformed] :
        t \in 0..MaxTs, parsable \in BOOLEAN}

\* the /currencies response of a main run, when the request succeeds
MainCurrencies == [members |-> <<[code |-> "NOK", name |-> "Krone", symbol |-> "kr"]>>]

\* the /rates?date= responses of a main run, when the request succeeds: the
\* rates of NOK alone, of EUR alone, or of none
MainResponses ==
    [date : ResponseDates,
     rates : SeqsUpTo([code : {"NOK", "EUR"}, rate : {MaxRate}], 1)]

\* main.py lines 32-47, up to the first API call: a CsvProcessor just
\* constructed over the batch directory, nothing fetched yet
MainInit ==
    /\ \E n1 \in 0..MaxRows :
         \E n2 \in 0..(MaxRows - n1) :
           \E r1 \in [1..n1 -> MainRows], r2 \in [1..n2 -> MainRows] :
             files = [f \in BatchFiles |-> IF f = Batch1 THEN r1 ELSE r2]
    /\ listing = <<Batch2, Batch1>>
    /\ check_point = Epoch
    /\ pc = "idle"
    /\ run = 0
    /\ ordered_csvs = <<>>
    /\ fi = 0
    /\ df = <<>>
    /\ ri = 0
    /\ date_list = <<>>
    /\ returns = <<>>
    /\ log = <<>>
    /\ relisting = <<>>
    /\ reordered = <<>>
    /\ opc = "unused"
    /\ payload = None
    /\ hist_df = <<>>
    /\ rates_df = <<>>
    /\ hpc = "idle"
    /\ mpc = "currencies"
    /\ list_of_dates = <<>>
    /\ di = 0
    /\ trace = <<>>
    /\ error = "none"
    /\ NormUnused
    /\ DbUnused
    /\ ViewUnused

\* an exception leaves main: nothing after the raising statement runs
Crash(exception) ==
    /\ mpc' = "crashed"
    /\ error' = exception
    /\ UNCHANGED <<list_of_dates, di, trace>>

\* lines 50-52: process_currencies (which raises TypeError on the None of a
\* failed request) and upsert_currencies_to_db (whose database errors are
\* not caught)
MainCurrenciesStep ==
    /\ mpc = "currencies"
    /\ \E currencies_json \in {MainCurrencies, None}, dbOk \in BOOLEAN :
         IF currencies_json = None THEN Crash("TypeError")
         ELSE IF ~dbOk THEN Crash("DatabaseError")
         ELSE /\ trace' = Append(trace, [op |-> "upsert_currencies",
                                         rows |-> ProcessCurrencies(currencies_json)])
              /\ mpc' = "csvs"
              /\ UNCHANGED <<list_of_dates, di, error>>
    /\ UNCHANGED <<listing, ordered_csvs, ingestVars, orderVars, apiVars, outsideMain>>

\* line 56: the steps of csv_processor.process_csvs()
MainProcessCsvs ==
    /\ mpc = "csvs"
    /\ \/ run = 0 /\ ProcessCsvsBegin
       \/ ReadCsv
       \/ ProcessRow
       \/ ProcessCsvsReturn

\* line 56: list_of_dates is bound to what process_csvs returned
MainCsvsReturned ==
    /\ mpc = "csvs"
    /\ pc = "idle"
    /\ run > 0
    /\ list_of_dates' = returns[Len(returns)].dates
    /\ di' = 1
    /\ trace' = Append(trace, [op |-> "process_csvs", dates |-> returns[Len(returns)].dates])
    /\ mpc' = "rates"
    /\ UNCHANGED <<error, listing, ordered_csvs, ingestVars, orderVars, apiVars, outsideMain>>

\* line 56: process_csvs raised (pd.to_datetime on text that is no timestamp)
MainCsvsRaised ==
    /\ mpc = "csvs"
    /\ pc = "raised"
    /\ Crash("ValueError")
    /\ UNCHANGED <<listing, ordered_csvs, ingestVars, orderVars, apiVars, outsideMain>>

\* line 60, api_processor.py line 126: the request for the next date of
\* list_of_dates returns a response, or None when it failed
MainGetHistoricalRate ==
    /\ mpc = "rates"
    /\ di <= Len(list_of_dates)
    /\ hpc = "idle"
    /\ payload' \in MainResponses \cup {None}
    /\ hpc' = "start"
    /\ trace' = Append(trace, [op |-> "get_historical_rate", date |-> list_of_dates[di]])
    /\ UNCHANGED <<hist_df, rates_df, mpc, list_of_dates, di, error,
                   listing, ordered_csvs, ingestVars, orderVars, outsideMain>>

\* line 60: the steps of api_processor.process_hist_rate_NOK(date)
MainProcessHistRateNOK ==
    /\ mpc = "rates"
    /\ CallProcessHistRates \/ Rebase

\* line 60: process_hist_rate_NOK raised: TypeError on the None of a failed
\* request, IndexError when the response holds no NOK rate
MainRebaseRaised ==
    /\ mpc = "rates"
    /\ hpc = "raised"
    /\ Crash(IF payload = None THEN "TypeError" ELSE "IndexError")
    /\ UNCHANGED <<listing, ordered_csvs, ingestVars, orderVars, apiVars, outsideMain>>

\* line 61: upsert_rates_to_db (whose database errors are not caught), then
\* the next date
MainUpsertRates ==
    /\ mpc = "rates"
    /\ hpc = "returned"
    /\ \E dbOk \in BOOLEAN :
         IF ~dbOk
         THEN /\ Crash("DatabaseError")
              /\ UNCHANGED hpc
         ELSE /\ trace' = Append(trace, [op |-> "upsert_rates", date |-> list_of_dates[di],
                                         rows |-> rates_df])
              /\ di' = di + 1
              /\ hpc' = "idle"
              /\ UNCHANGED <<mpc, list_of_dates, error>>
    /\ UNCHANGED <<payload, hist_df, rates_df, listing, ordered_csvs, ingestVars,
                   orderVars, outsideMain>>

\* variant: the view is created without waiting for the end of the loop over
\* list_of_dates
MainCreateViewEarly ==
    /\ mpc = "rates"
    /\ hpc = "idle"
    /\ trace' = Append(trace, [op |-> "create_item_prices_NOK_view"])
    /\ mpc' = "close"
    /\ UNCHANGED <<list_of_dates, di, error, listing, ordered_csvs, ingestVars,
                   orderVars, apiVars, outsideMain>>

\* line 64: create_item_prices_NOK_view, after the loop over list_of_dates
MainCreateView ==
    /\ mpc = "rates"
    /\ di > Len(list_of_dates)
    /\ trace' = Append(trace, [op |-> "create_item_prices_NOK_view"])
    /\ mpc' = "close"
    /\ UNCHANGED <<list_of_dates, di, error, listing, ordered_csvs, ingestVars,
                   orderVars, apiVars, outsideMain>>

\* line 66: db_connector._close()
MainClose ==
    /\ mpc = "close"
    /\ trace' = Append(trace, [op |-> "_close"])
    /\ mpc' = "done"
    /\ UNCHANGED <<list_of_dates, di, error, listing, ordered_csvs, ingestVars,
                   orderVars, apiVars, outsideMain>>

MainNext ==
    \/ MainCurrenciesStep
    \/ MainProcessCsvs
    \/ MainCsvsReturned
    \/ MainCsvsRaised
    \/ MainGetHistoricalRate
    \/ MainProcessHistRateNOK
    \/ MainRebaseRaised
    \/ MainUpsertRates
    \/ MainCreateView
    \/ MainClose

\* one run of main
SpecMain == MainInit /\ [][MainNext]_vars

\* ---------------------------------------------------------------- DBConnector

\* versions of the row of one id
MaxVersion == 2

Ids == {"a", "b"}

EUR == Str(<<"E", "U", "R">>)

\* the rows process_csvs hands to upsert_record_item_prices: every version of
\* an id differs from the others in every field but the id
DbRows ==
    {[id |-> id, item |-> <<"item", v>>, price |-> v, currency |-> c,
      created_at |-> v, updated_at |-> v, system_timestamp |-> v] :
        id \in Ids, v \in 1..MaxVersion, c \in Currencies \cup {EUR}}

\* variant: the SET list without price
InsertOnConflictKeepPrice(table, excluded) ==
    IF \E r \in table : r.id = excluded.id
    THEN {IF r.id = excluded.id
          THEN [r EXCEPT !.item = excluded.item,
                         !.currency = excluded.currency,
                         !.created_at = excluded.created_at,
                         !.updated_at = excluded.updated_at,
                         !.system_timestamp = excluded.system_timestamp]
          ELSE r : r \in table}
    ELSE table \cup {excluded}

\* lines 203-214: INSERT INTO public.item_prices ... ON CONFLICT (id) DO
\* UPDATE SET ... on a table whose primary key is id
InsertOnConflictUpdate(table, excluded) ==
    IF \E r \in table : r.id = excluded.id
    THEN {IF r.id = excluded.id
          THEN [r EXCEPT !.item = excluded.item,
                         !.price = excluded.price,
                         !.currency = excluded.currency,
                         !.created_at = excluded.created_at,
                         !.updated_at = excluded.updated_at,
                         !.system_timestamp = excluded.system_timestamp]
          ELSE r : r \in table}
    ELSE table \cup {excluded}

\* variant: close() whenever there is a connection object
CloseCallsIgnoringClosed(conn) == IF conn # "None" THEN 1 ELSE 0

\* lines 52-53: close() is called when there is a connection and it is not
\* closed
CloseCalls(conn) == IF conn # "None" /\ conn # "closed" THEN 1 ELSE 0

\* variant: a failed connection attempt leaves self._connection as it was
ConnectKeepsOld(conn, connectOk) ==
    IF conn = "None" \/ conn = "closed"
    THEN IF connectOk THEN "open" ELSE conn
    ELSE conn

\* lines 28-48: the connection _connect leaves in self._connection
Connect(conn, connectOk) ==
    IF conn = "None" \/ conn = "closed"
    THEN IF connectOk THEN "open" ELSE "None"
    ELSE conn

DbInit ==
    /\ connection = "None"
    /\ item_prices = {}
    /\ applied = [id \in Ids |-> None]
    /\ last_call = [op |-> "__init__"]
    /\ listing = <<>>
    /\ ordered_csvs = <<>>
    /\ relisting = <<>>
    /\ reordered = <<>>
    /\ opc = "unused"
    /\ files = NoFiles
    /\ check_point = Epoch
    /\ pc = "unused"
    /\ run = 0
    /\ fi = 0
    /\ df = <<>>
    /\ ri = 0
    /\ date_list = <<>>
    /\ returns = <<>>
    /\ log = <<>>
    /\ ApiUnused
    /\ MainUnused
    /\ NormUnused
    /\ ViewUnused

\* lines 190-222: one call of upsert_record_item_prices; connectOk and
\* executeOk say whether psycopg2.connect and cursor.execute succeed
DbUpsert ==
    \E row \in DbRows, connectOk \in BOOLEAN, executeOk \in BOOLEAN :
        LET connected == Connect(connection, connectOk) = "open"
            outcome == UpsertRecordItemPrices(row.currency, connected /\ executeOk)
            queried == outcome \in {"executed", "dberror"}
        IN /\ connection' = IF queried THEN Connect(connection, connectOk) ELSE connection
           /\ item_prices' = IF outcome = "executed"
                             THEN InsertOnConflictUpdate(item_prices, row)
                             ELSE item_prices
           /\ applied' = IF outcome = "executed"
                         THEN [applied EXCEPT ![row.id] = row]
                         ELSE applied
           /\ last_call' = [op |-> "upsert_record_item_prices", row |-> row,
                            outcome |-> outcome,
                            statements |-> IF queried /\ connected THEN 1 ELSE 0,
                            before |-> item_prices]
           /\ UNCHANGED outsideDb

\* lines 50-55: one call of _close
DbClose ==
    /\ connection' = "None"
    /\ last_call' = [op |-> "_close", before |-> connection,
                     close_calls |-> CloseCalls(connection)]
    /\ UNCHANGED <<item_prices, applied, outsideDb>>

\* the server ends the session: the connection object reports closed
DbConnectionLost ==
    /\ connection = "open"
    /\ connection' = "closed"
    /\ last_call' = [op |-> "connection lost"]
    /\ UNCHANGED <<item_prices, applied, outsideDb>>

\* lines 74-78: what one call of _execute_query does: _connect re-raises the
\* Error of a failed connection attempt (line 47) inside the try, so no
\* cursor is made; an Error of either step is caught and printed (lines
\* 77-78), and nothing else is raised by the two steps
ExecuteQuery(conn, connectOk, executeOk) ==
    LET after == Connect(conn, connectOk)
        attempted == conn = "None" \/ conn = "closed"
        connect_failed == attempted /\ ~connectOk
        executes == IF connect_failed THEN 0 ELSE 1
        raised == IF connect_failed \/ ~executeOk THEN "Error" ELSE "none"
    IN [connection |-> after,
        attempted |-> attempted,
        connect_failed |-> connect_failed,
        executes |-> executes,
        failed |-> raised # "none",
        reported |-> raised = "Error",
        propagated |-> IF raised = "Error" THEN "none" ELSE raised]

\* lines 66-78: one call of _execute_query with a statement that changes no
\* row of public.item_prices (the create statements of lines 107-188, 228-241)
DbExecuteQuery ==
    \E connectOk \in BOOLEAN, executeOk \in BOOLEAN :
        LET result == ExecuteQuery(connection, connectOk, executeOk)
        IN /\ connection' = result.connection
           /\ last_call' = [op |-> "_execute_query", before |-> connection,
                            result |-> result]
           /\ UNCHANGED <<item_prices, applied, outsideDb>>

DbNext == DbUpsert \/ DbExecuteQuery \/ DbClose \/ DbConnectionLost

\* calls on one DBConnector, in any order
SpecDb == DbInit /\ [][DbNext]_vars

\* ---------------------------------------------------------------- item_prices_nok

\* SQL NULL
Null == [null |-> TRUE]

\* the stored rows of public.item_prices the view is read over: a price in
\* NOK under one id, a price in EUR under the other, updated at any time
ViewPriceRows ==
    {[id |-> id, item |-> <<"item", MaxVersion>>, price |-> MaxVersion,
      currency |-> IF id = "a" THEN NOK ELSE EUR,
      created_at |-> t, updated_at |-> t, system_timestamp |-> t] :
        id \in Ids, t \in 0..MaxTs}

\* the stored rows of currency.currency_conversion_rate: any date, any base,
\* a rate that is not zero
RateRows ==
    [date : ResponseDates, base_currency_code : {NOK.chars, EUR.chars},
     target_currency_code : {NOK.chars, EUR.chars}, rate : 1..MaxRate]

\* the sets of at most n elements of S
RECURSIVE SubsetsUpTo(_, _)
SubsetsUpTo(S, n) ==
    IF n = 0 THEN {{}}
    ELSE LET smaller == SubsetsUpTo(S, n - 1)
         IN smaller \cup {T \cup {x} : T \in smaller, x \in S}

\* line 236: where c.date <= date(p.updated_at) and
\* c.target_currency_code = p.currency
Qualifying(p, rates) ==
    {c \in rates : c.date <= DtDate(p.updated_at) /\ c.target_currency_code = p.currency.chars}

\* variant: order by c.date asc limit 1
OldestOf(rows) == {c \in rows : \A other \in rows : c.date <= other.date}

\* lines 237-238: order by c.date desc limit 1 returns one of the rows of
\* the greatest date, whichever the server comes to first
MostRecentOf(rows) == {c \in rows : \A other \in rows : c.date >= other.date}

\* lines 230-231: the select list for price row p joined to rate row cc, or
\* to the all-null row of the left join
SelectRow(p, cc) ==
    [id |-> p.id, item |-> p.item,
     price |-> IF cc = Null THEN Null ELSE FloatDiv(p.price, cc.rate),
     currency |-> NOK.chars,
     created_at |-> p.created_at, updated_at |-> p.updated_at,
     system_timestamp |-> p.system_timestamp]

\* the rows left join lateral ... on true gives for price row p
JoinedRows(p, rates) ==
    LET found == MostRecentOf(Qualifying(p, rates))
    IN IF found = {} THEN {Null} ELSE found

ViewInit ==
    /\ item_prices \in {T \in SubsetsUpTo(ViewPriceRows, Cardinality(Ids)) :
                          \A p1, p2 \in T : p1.id = p2.id => p1 = p2}
    /\ cc_rates \in {T \in SubsetsUpTo(RateRows, MaxRates) :
                       \A c1, c2 \in T :
                          (/\ c1.date = c2.date
                           /\ c1.base_currency_code = c2.base_currency_code
                           /\ c1.target_currency_code = c2.target_currency_code) => c1 = c2}
    /\ view = {}
    /\ vpc = "start"
    /\ connection = "None"
    /\ applied = <<>>
    /\ last_call = [op |-> "none"]
    /\ listing = <<>>
    /\ ordered_csvs = <<>>
    /\ relisting = <<>>
    /\ reordered = <<>>
    /\ opc = "unused"
    /\ files = NoFiles
    /\ check_point = Epoch
    /\ pc = "unused"
    /\ run = 0
    /\ fi = 0
    /\ df = <<>>
    /\ ri = 0
    /\ date_list = <<>>
    /\ returns = <<>>
    /\ log = <<>>
    /\ ApiUnused
    /\ MainUnused
    /\ NormUnused

\* lines 229-240: the view is created and read: one joined row per price row
SelectFromView ==
    /\ vpc = "start"
    /\ \E cc \in [item_prices -> cc_rates \cup {Null}] :
         /\ \A p \in item_prices : cc[p] \in JoinedRows(p, cc_rates)
         /\ view' = {SelectRow(p, cc[p]) : p \in item_prices}
    /\ vpc' = "done"
    /\ UNCHANGED <<item_prices, cc_rates, outsideView>>

ViewNext == SelectFromView

\* one reading of the view over one content of the two tables
SpecView == ViewInit /\ [][ViewNext]_vars

\* ================================================================ properties

LogOf(r) == {k \in DOMAIN log : log[k].run = r}

Called(e) == e.outcome # "skipped"

Failed(e) == e.outcome \in {"raised", "rejected", "dberror"}

Max(S) == CHOOSE x \in S : \A y \in S : y <= x

\* the rows of the batch directory, as (file, index) pairs
AllRows == {<<f, i>> : f \in Range(listing), i \in 1..MaxRows} \cap
           {p \in BatchFiles \X (1..MaxRows) : p[2] \in DOMAIN files[p[1]]}

Pos(seq, x) == CHOOSE i \in DOMAIN seq : seq[i] = x

\* the UTC instant a timestamp text denotes
InstantOf(text) == text.wall - text.off

\* the calendar day d with d * DayTicks <= instant < (d + 1) * DayTicks
DayOfInstant(instant) ==
    CHOOSE d \in (-(DayTicks + MaxTs + 1))..(DayTicks + MaxTs + 1) :
        d * DayTicks <= instant /\ instant < (d + 1) * DayTicks

\* C1: during any process_csvs run the check point never decreases, after every
\* row it equals the greatest system_timestamp among the rows whose upsert
\* statement was executed so far (or the epoch when there is none), and it is
\* not advanced by a row whose application did not succeed
C1_WatermarkIsMaxApplied ==
    /\ \A k \in DOMAIN log : log[k].after >= log[k].before
    /\ check_point = Max({Epoch} \cup {log[k].ts : k \in {j \in DOMAIN log :
                                                      log[j].outcome = "executed"}})
    /\ \A k \in DOMAIN log : log[k].outcome # "executed" => log[k].after = log[k].before

\* C2: a row above the check point whose application fails leaves the check
\* point unchanged, is attempted only once in the run, and the rows and files
\* after it are still processed
C2_FailedRowKeepsWatermark ==
    /\ \A k \in DOMAIN log : Failed(log[k]) => log[k].after = log[k].before
    /\ \A k, j \in DOMAIN log :
         (log[k].run = log[j].run /\ log[k].file = log[j].file /\ log[k].idx = log[j].idx)
             => k = j
    /\ \A r \in DOMAIN returns :
         \A p \in AllRows : \E k \in LogOf(r) : log[k].file = p[1] /\ log[k].idx = p[2]

\* number of upsert calls made for row p in run r
CallsFor(r, p) ==
    Cardinality({k \in LogOf(r) : log[k].file = p[1] /\ log[k].idx = p[2] /\ Called(log[k])})

\* the first run has returned and none of its upsert calls failed
FirstRunClean == Len(returns) >= 1 /\ \A k \in LogOf(1) : ~Failed(log[k])

\* C3 as stated: in a run from the epoch in which no upsert fails, every row of
\* every file is passed to the upsert exactly once
C3_EveryRowUpsertedOnce ==
    FirstRunClean => \A p \in AllRows : CallsFor(1, p) = 1

\* row q comes before row p in replay order
Precedes(q, p) ==
    \/ Pos(ordered_csvs, q[1]) < Pos(ordered_csvs, p[1])
    \/ q[1] = p[1] /\ q[2] < p[2]

RowInstant(p) == InstantOf(files[p[1]][p[2]].system_timestamp)

\* C3 amended: in a run from the epoch in which no upsert fails, a row is passed
\* to the upsert exactly once when its system_timestamp is greater than the
\* epoch and than that of every row before it in replay order, and not at all
\* otherwise
C3_UpsertedOnceIffNewer ==
    FirstRunClean =>
        \A p \in AllRows :
            CallsFor(1, p) =
                IF RowInstant(p) > Max({Epoch} \cup {RowInstant(q) :
                                          q \in {x \in AllRows : Precedes(x, p)}})
                THEN 1 ELSE 0

C3_Witness ==
    /\ FirstRunClean
    /\ \E p, q \in AllRows : CallsFor(1, p) = 1 /\ CallsFor(1, q) = 0 /\ Precedes(p, q)
                             /\ RowInstant(q) = RowInstant(p)

\* the log entries of file f in run r
FileLog(r, f) == {k \in LogOf(r) : log[k].file = f}

\* C4: a row at or below the check point causes no upsert call and leaves the
\* check point unchanged, its updated_at date is in the returned list, and a
\* file whose rows are all at or below the check point leaves it as it found it
C4_SkippedRowsStillDated ==
    /\ \A k \in DOMAIN log :
         log[k].ts <= log[k].before => ~Called(log[k]) /\ log[k].after = log[k].before
    /\ \A r \in DOMAIN returns : \A k \in LogOf(returns[r].run) :
         ~Called(log[k]) =>
             DayOfInstant(InstantOf(files[log[k].file][log[k].idx].updated_at))
                 \in Range(returns[r].dates)
    /\ \A r \in 1..run : \A f \in BatchFiles :
         LET ks == FileLog(r, f)
         IN (ks # {} /\ Cardinality(ks) = Len(files[f])) =>
              LET first == log[CHOOSE k \in ks : log[k].idx = 1]
                  last == log[CHOOSE k \in ks : log[k].idx = Len(files[f])]
              IN (\A k \in ks : log[k].ts <= first.before) => last.after = first.before

\* a returned run skipped a row whose date no other row of that run carries
C4_Witness ==
    \E r \in DOMAIN returns : \E k \in LogOf(returns[r].run) :
        /\ ~Called(log[k])
        /\ \A j \in LogOf(returns[r].run) \ {k} :
             /\ Called(log[j])
             /\ files[log[j].file][log[j].idx].updated_at
                    # files[log[k].file][log[k].idx].updated_at
             /\ DayOfInstant(InstantOf(files[log[j].file][log[j].idx].updated_at))
                    # DayOfInstant(InstantOf(files[log[k].file][log[k].idx].updated_at))
        /\ Cardinality(LogOf(returns[r].run)) = 2

\* C5: the returned list holds exactly the distinct UTC calendar dates of
\* updated_at over all rows of all files, in strictly ascending order; for an
\* empty directory it is empty and no upsert is called
C5_ReturnsAllDistinctDates ==
    \A r \in DOMAIN returns :
        LET dates == returns[r].dates
        IN /\ Range(dates) = {DayOfInstant(InstantOf(files[p[1]][p[2]].updated_at)) :
                                p \in AllRows}
           /\ \A i, j \in DOMAIN dates : i < j => dates[i] < dates[j]
           /\ listing = <<>> => dates = <<>> /\ log = <<>>

\* a run returned two dates although a row's local date differs from its UTC date
C5_Witness ==
    \E r \in DOMAIN returns :
        /\ Len(returns[r].dates) = 2
        /\ \E p \in AllRows : files[p[1]][p[2]].updated_at.off # 0
        /\ \E k \in LogOf(returns[r].run) : log[k].outcome = "dberror"

\* C8 as stated: a second process_csvs call on the same CsvProcessor makes no
\* upsert call, leaves the check point unchanged and returns the date list of
\* the first call
C8_SecondRunIdempotent ==
    /\ \A k \in DOMAIN log : log[k].run >= 2 => ~Called(log[k])
    /\ \A r \in DOMAIN returns :
         r >= 2 => /\ returns[r].check_point = returns[1].check_point
                   /\ returns[r].dates = returns[1].dates

\* C8 amended: a second call leaves the check point unchanged, executes no
\* statement and returns the date list of the first call; the only upsert
\* calls it makes are for rows whose call raised in the first run, and they
\* raise again
C8_SecondRunOnlyRetriesRaised ==
    /\ \A k \in DOMAIN log :
         log[k].run >= 2 =>
            /\ log[k].outcome \in {"skipped", "raised"}
            /\ log[k].after = log[k].before
            /\ log[k].before = returns[1].check_point
            /\ Called(log[k]) =>
                 \E j \in LogOf(1) : /\ log[j].file = log[k].file
                                     /\ log[j].idx = log[k].idx
                                     /\ log[j].outcome = "raised"
    /\ \A r \in DOMAIN returns :
         r >= 2 => /\ returns[r].check_point = returns[1].check_point
                   /\ returns[r].dates = returns[1].dates

\* a second run returned after the first executed one row and a raising row
\* above the check point was called again
C8_Witness ==
    /\ Len(returns) >= 2
    /\ \E k \in LogOf(1) : log[k].outcome = "executed"
    /\ \E k \in LogOf(2) : log[k].outcome = "raised"
    /\ \E k \in LogOf(2) : log[k].outcome = "skipped"

\* C9: a malformed timestamp in one row does not abort ingestion: every
\* process_csvs call that has ended has processed every row of every file and
\* returned its date list
C9_MalformedRowDoesNotAbort ==
    pc \notin {"file", "rows"} =>
        /\ Len(returns) = run
        /\ \A r \in 1..run : \A p \in AllRows :
             \E k \in LogOf(r) : log[k].file = p[1] /\ log[k].idx = p[2]

\* ---------------------------------------------------------------- _order_csvs

RECURSIVE Pow10(_)
Pow10(k) == IF k = 0 THEN 1 ELSE 10 * Pow10(k - 1)

RECURSIVE SumOver(_, _)
SumOver(f, D) ==
    IF D = {} THEN 0
    ELSE LET x == CHOOSE y \in D : TRUE IN f[x] + SumOver(f, D \ {x})

\* the lengths k >= 1 such that name is k digits followed by ".csv" at its end
DigitRuns(name) ==
    {k \in 1..(Len(name) - 4) :
        /\ SubSeq(name, Len(name) - 3, Len(name)) = CsvSuffix
        /\ \A i \in (Len(name) - 3 - k)..(Len(name) - 4) : name[i] \in Digits}

\* the integer written by the digits immediately before ".csv", as a batch
\* number; infinity when there are none
SuffixKey(name) ==
    IF DigitRuns(name) = {} THEN Inf
    ELSE LET k == Max(DigitRuns(name))
             n == Len(name) - 4
         IN Int_(SumOver([i \in 0..(k - 1) |-> DigitValue(name[n - i]) * Pow10(i)],
                         0..(k - 1)))

KeysDistinct(names) == \A a, b \in names : a # b => SuffixKey(a) # SuffixKey(b)

\* C6: _order_csvs returns a permutation of the listing, ascending by the
\* integer before ".csv", names without one after all names with one, names
\* with equal keys in their listing order
C6_OrderIsStableSortByBatchNumber ==
    opc = "done" =>
        /\ Len(ordered_csvs) = Len(listing)
        /\ Range(ordered_csvs) = Range(listing)
        /\ \A i, j \in DOMAIN ordered_csvs :
             i < j =>
                LET a == SuffixKey(ordered_csvs[i])
                    b == SuffixKey(ordered_csvs[j])
                IN /\ ~a.inf /\ ~b.inf => a.n <= b.n
                   /\ a.inf => b.inf
                   /\ a = b => Pos(listing, ordered_csvs[i]) < Pos(listing, ordered_csvs[j])

\* a listing out of order holding two names with the same number and one
\* without a number
C6_Witness ==
    /\ opc = "done"
    /\ ordered_csvs # listing
    /\ \E i, j \in DOMAIN listing :
         i < j /\ ~SuffixKey(listing[i]).inf /\ SuffixKey(listing[i]) = SuffixKey(listing[j])
    /\ \E i \in DOMAIN listing : SuffixKey(listing[i]).inf /\ i < Len(listing)

\* C7 as stated: two listings that enumerate the same names in different
\* orders give the same replay order
C7_OrderIndependentOfListing ==
    opc = "done" => ordered_csvs = reordered

\* C7 amended: two names with different batch numbers are in the same relative
\* order in both results, so the results are equal when no two names share a
\* batch number; names that share one follow each listing's own order
C7_OrderIndependentUpToTies ==
    opc = "done" =>
        /\ \A a, b \in Range(listing) :
             SuffixKey(a) # SuffixKey(b) =>
                ((Pos(ordered_csvs, a) < Pos(ordered_csvs, b))
                    <=> (Pos(reordered, a) < Pos(reordered, b)))
        /\ \A a, b \in Range(listing) :
             (SuffixKey(a) = SuffixKey(b) /\ Pos(relisting, a) < Pos(relisting, b))
                => Pos(reordered, a) < Pos(reordered, b)
        /\ KeysDistinct(Range(listing)) => ordered_csvs = reordered

\* three names with distinct batch numbers, listed in two different orders
C7_Witness ==
    /\ opc = "done"
    /\ Len(listing) = 3
    /\ listing # relisting
    /\ KeysDistinct(Range(listing))
    /\ ordered_csvs = reordered
    /\ ordered_csvs # listing

\* the EUR rate of the NOK row of the frame process_hist_rates returned
PivotRate == hist_df[CHOOSE i \in DOMAIN hist_df : hist_df[i].currency_code = "NOK"].rate_EUR

\* C10: rebasing EUR-anchored records that contain NOK returns one record per
\* input record, with its target currency and date, base NOK, the input rate
\* divided by the EUR rate of NOK, and no EUR-anchored rate field
C10_RebaseDividesByPivot ==
    (hpc \in {"returned", "raised"} /\
     \E i \in DOMAIN hist_df : hist_df[i].currency_code = "NOK") =>
        /\ hpc = "returned"
        /\ Len(rates_df) = Len(hist_df)
        /\ \A i \in DOMAIN hist_df :
             /\ DOMAIN rates_df[i] =
                    {"target_currency_code", "date", "base_currency_code", "rate"}
             /\ rates_df[i].target_currency_code = hist_df[i].currency_code
             /\ rates_df[i].date = hist_df[i].date
             /\ rates_df[i].base_currency_code = "NOK"
             /\ PivotRate # 0 =>
                  /\ rates_df[i].rate.kind = "finite"
                  /\ rates_df[i].rate.num * PivotRate
                        = hist_df[i].rate_EUR * rates_df[i].rate.den
             /\ PivotRate = 0 =>
                  rates_df[i].rate.kind = IF hist_df[i].rate_EUR = 0 THEN "nan" ELSE "inf"

\* three records were rebased on a NOK rate other than 1 that is not the
\* first record
C10_Witness ==
    /\ hpc = "returned"
    /\ Len(rates_df) = 3
    /\ hist_df[1].currency_code # "NOK"
    /\ PivotRate = 2
    /\ \E i \in DOMAIN rates_df : rates_df[i].rate.den = 2

\* the rebased record whose target is NOK itself
SelfRate == rates_df[CHOOSE i \in DOMAIN rates_df : rates_df[i].target_currency_code = "NOK"].rate

\* the float 1.0
One == [kind |-> "finite", num |-> 1, den |-> 1]

\* C11 as stated: whenever the input holds a NOK record, the rebased NOK
\* record has rate exactly 1.0, whatever the value of the NOK rate
C11_SelfRateIsOne ==
    (hpc \in {"returned", "raised"} /\
     \E i \in DOMAIN hist_df : hist_df[i].currency_code = "NOK") =>
        /\ hpc = "returned"
        /\ SelfRate = One

\* C11 amended: whenever the input holds a NOK record, the rebased NOK record
\* has rate exactly 1.0 if the NOK rate of the input is not zero, and NaN
\* (zero divided by zero) if it is zero
C11_SelfRateIsOneUnlessZero ==
    (hpc \in {"returned", "raised"} /\
     \E i \in DOMAIN hist_df : hist_df[i].currency_code = "NOK") =>
        /\ hpc = "returned"
        /\ PivotRate # 0 => SelfRate = One
        /\ PivotRate = 0 => SelfRate.kind = "nan"

\* a frame of three records whose NOK record is not the first and has a
\* rate other than 0 and 1 was rebased
C11_Witness ==
    /\ hpc = "returned"
    /\ Len(rates_df) = 3
    /\ rates_df[1].target_currency_code # "NOK"
    /\ PivotRate = 2
    /\ hist_df[1].rate_EUR = 1
    /\ SelfRate = One

\* ---------------------------------------------------------------- normalisation

\* the last member of an object's text that has the given key
LastMember(members, code) ==
    members[Max({i \in DOMAIN members : members[i].code = code})]

\* the rows of a frame have pairwise different values in the given column
DistinctIn(frame, column) ==
    \A i, j \in DOMAIN frame : frame[i][column] = frame[j][column] => i = j

\* C13: process_currencies returns exactly one row per distinct currency code
\* of the payload, and the row of a code carries the name and symbol of the
\* last occurrence of that code in the payload
C13_OneRowPerCodeLastWins ==
    (ncall.fn = "process_currencies" /\ njson # None /\ npc # "start") =>
        /\ npc = "returned"
        /\ {ndf[i].currency_code : i \in DOMAIN ndf}
              = {njson.members[k].code : k \in DOMAIN njson.members}
        /\ DistinctIn(ndf, "currency_code")
        /\ \A i \in DOMAIN ndf :
             LET last == LastMember(njson.members, ndf[i].currency_code)
             IN ndf[i] = [currency_code |-> last.code, name |-> last.name,
                          symbol |-> last.symbol]

\* a payload of three members, the first and the last with the same code but
\* different name and symbol, was normalised to two rows
C13_Witness ==
    /\ ncall.fn = "process_currencies"
    /\ npc = "returned"
    /\ njson # None
    /\ Len(njson.members) = 3
    /\ njson.members[1].code = njson.members[3].code
    /\ njson.members[1].code # njson.members[2].code
    /\ njson.members[1].name # njson.members[3].name
    /\ njson.members[1].symbol # njson.members[3].symbol
    /\ Len(ndf) = 2

RateFns == {"process_base_rates", "process_base_rates_NOK", "process_hist_rates"}

\* the column that holds the target code, and the one that holds the rate
TargetColumn(fn) ==
    IF fn = "process_base_rates_NOK" THEN "target_currency_code" ELSE "currency_code"

RateColumn(fn) == IF fn = "process_hist_rates" THEN "rate_EUR" ELSE "rate"

\* the base the rates of a call refer to: the argument of process_base_rates,
\* NOK for process_base_rates_NOK, EUR for the historical rates
RequestedBase(call) ==
    IF call.fn = "process_base_rates" THEN call.arg
    ELSE IF call.fn = "process_base_rates_NOK" THEN "NOK" ELSE "EUR"

\* one row per distinct target code of the payload's rates, with the payload's
\* date and the rate of the last occurrence of the code
OneRowPerTargetLastWins ==
    /\ npc = "returned"
    /\ {ndf[i][TargetColumn(ncall.fn)] : i \in DOMAIN ndf}
          = {njson.rates[k].code : k \in DOMAIN njson.rates}
    /\ DistinctIn(ndf, TargetColumn(ncall.fn))
    /\ \A i \in DOMAIN ndf :
         /\ ndf[i].date = njson.date
         /\ ndf[i][RateColumn(ncall.fn)]
               = LastMember(njson.rates, ndf[i][TargetColumn(ncall.fn)]).rate

\* C14 as stated: each of the three rate normalisations returns one record
\* per distinct target code, each carrying the payload's date, the requested
\* base code, the target code and the rate of the code's last occurrence
C14_RecordsCarryBaseCode ==
    (ncall.fn \in RateFns /\ njson # None /\ npc # "start") =>
        /\ OneRowPerTargetLastWins
        /\ \A i \in DOMAIN ndf :
             /\ "base_currency_code" \in DOMAIN ndf[i]
             /\ ndf[i].base_currency_code = RequestedBase(ncall)

\* C14 amended: each of the three rate normalisations returns one record per
\* distinct target code, each carrying the payload's date, the target code
\* and the rate of the code's last occurrence; a record of
\* process_base_rates_NOK also carries the base code NOK, a record of
\* process_base_rates or process_hist_rates carries no base code
C14_OnlyNokRecordsCarryBaseCode ==
    (ncall.fn \in RateFns /\ njson # None /\ npc # "start") =>
        /\ OneRowPerTargetLastWins
        /\ \A i \in DOMAIN ndf :
             IF ncall.fn = "process_base_rates_NOK"
             THEN /\ DOMAIN ndf[i] = {"target_currency_code", "rate", "date",
                                      "base_currency_code"}
                  /\ ndf[i].base_currency_code = "NOK"
             ELSE DOMAIN ndf[i] = {"currency_code", RateColumn(ncall.fn), "date"}

\* process_base_rates for a base other than NOK normalised a payload of
\* three members, the first and the last with the same code but different
\* rates, to two rows
C14_Witness ==
    /\ ncall = [fn |-> "process_base_rates", arg |-> "USD"]
    /\ npc = "returned"
    /\ njson # None
    /\ Len(njson.rates) = 3
    /\ njson.rates[1].code = njson.rates[3].code
    /\ njson.rates[1].code # njson.rates[2].code
    /\ njson.rates[1].rate # njson.rates[3].rate
    /\ Len(ndf) = 2
    /\ ndf[1].rate = njson.rates[3].rate

\* ---------------------------------------------------------------- main

\* C12: a rebase of a response that holds no NOK rate fails and returns no
\* records, and its failure stays inside that rebase: it does not end the
\* run of main that asked for it
C12_MissingPivotConfined ==
    /\ (hpc = "raised" /\ payload # None) => NokRates(hist_df) = <<>>
    /\ ~(mpc = "crashed" /\ error = "IndexError")

\* C15: a failed request is returned as None, and no run of main ends with
\* the unhandled error of a step that was handed that None
C15_TransportFailureDoesNotCrash ==
    ~(mpc = "crashed" /\ error = "TypeError")

\* what a step of the trace did, and for which date
StepOf(event) ==
    IF "date" \in DOMAIN event THEN <<event.op, event.date>> ELSE <<event.op>>

\* the fetch and the store of the rates of each date, in the order of dates
RECURSIVE RateSteps(_)
RateSteps(dates) ==
    IF dates = <<>> THEN <<>>
    ELSE <<<<"get_historical_rate", Head(dates)>>, <<"upsert_rates", Head(dates)>>>>
         \o RateSteps(Tail(dates))

\* every row of every listed batch file has been through the row loop
AllFilesIngested ==
    \A f \in Range(listing) : \A i \in DOMAIN files[f] :
        \E k \in DOMAIN log : log[k].file = f /\ log[k].idx = i

\* C19: the currency table is populated before any price row is ingested;
\* all batch files are ingested before any historical rate is fetched; a
\* completed run fetched, rebased and stored rates exactly once for each
\* date process_csvs returned, in ascending date order, created the view
\* after the last of them and closed the connection last
C19_StepsInOrder ==
    /\ (run > 0 \/ log # <<>>) =>
          /\ trace # <<>>
          /\ trace[1].op = "upsert_currencies"
    /\ (\E k \in DOMAIN trace : trace[k].op = "get_historical_rate") =>
          /\ pc = "idle"
          /\ Len(returns) = 1
          /\ list_of_dates = returns[1].dates
          /\ AllFilesIngested
    /\ \A k \in DOMAIN trace :
          trace[k].op = "upsert_rates" =>
              /\ trace[k - 1] = [op |-> "get_historical_rate", date |-> trace[k].date]
              /\ \E response \in MainResponses :
                    trace[k].rows = RebaseNOK(ProcessHistRates(response))
    /\ mpc = "done" =>
          /\ \A i, j \in DOMAIN list_of_dates : i < j => list_of_dates[i] < list_of_dates[j]
          /\ [k \in DOMAIN trace |-> StepOf(trace[k])]
                = <<<<"upsert_currencies">>, <<"process_csvs">>>>
                  \o RateSteps(list_of_dates)
                  \o <<<<"create_item_prices_NOK_view">>, <<"_close">>>>

\* a run of main completed after it ingested two files, one row each, and
\* stored the rates of two dates
C19_Witness ==
    /\ mpc = "done"
    /\ Len(list_of_dates) = 2
    /\ Len(log) = 2
    /\ log[1].file = Batch1
    /\ log[2].file = Batch2
    /\ log[2].outcome = "executed"

\* ---------------------------------------------------------------- DBConnector

RowFields == {"id", "item", "price", "currency", "created_at", "updated_at",
              "system_timestamp"}

\* C16: upsert_record_item_prices called with a currency code whose length
\* is not 3 is rejected before any statement is executed, and leaves the
\* price table as it was
C16_WrongLengthRejectedBeforeStorage ==
    (/\ last_call.op = "upsert_record_item_prices"
     /\ last_call.row.currency.isstr
     /\ Len(last_call.row.currency.chars) # 3) =>
        /\ last_call.outcome = "rejected"
        /\ last_call.statements = 0
        /\ item_prices = last_call.before

\* a row with a two-character currency was rejected while the table held
\* another version of the same id, and a connection was open
C16_Witness ==
    /\ last_call.op = "upsert_record_item_prices"
    /\ last_call.row.currency = Str(<<"N", "O">>)
    /\ last_call.outcome = "rejected"
    /\ connection = "open"
    /\ \E r \in item_prices : r.id = last_call.row.id /\ r.price # last_call.row.price

\* C17: the price table holds at most one row per id, and the row of an id
\* equals, in every field, the row of the last upsert statement that
\* succeeded for that id
C17_OneRowPerIdLastApplied ==
    /\ \A r1, r2 \in item_prices : r1.id = r2.id => r1 = r2
    /\ \A id \in Ids :
         IF applied[id] = None
         THEN \A r \in item_prices : r.id # id
         ELSE \E r \in item_prices :
                /\ r.id = id
                /\ DOMAIN r = RowFields
                /\ \A f \in RowFields : r[f] = applied[id][f]

\* the last upsert replaced the row of its id by a row that differs from it
\* in every other field, while the table holds the row of another id
C17_Witness ==
    /\ last_call.op = "upsert_record_item_prices"
    /\ last_call.outcome = "executed"
    /\ \E r \in last_call.before :
         /\ r.id = last_call.row.id
         /\ \A f \in RowFields \ {"id"} : r[f] # last_call.row[f]
    /\ Cardinality(item_prices) = 2

\* C20: after _close the connector's _connection is None, and close() was
\* called on the underlying connection once if it was open and not at all
\* if it was already closed or there was none
C20_CloseClearsAndClosesOnce ==
    last_call.op = "_close" =>
        /\ connection = "None"
        /\ last_call.close_calls = IF last_call.before = "open" THEN 1 ELSE 0

\* _close was called on a connection that had been opened by an upsert and
\* was closed already
C20_Witness ==
    /\ last_call.op = "_close"
    /\ last_call.before = "closed"
    /\ last_call.close_calls = 0
    /\ item_prices # {}
    /\ connection = "None"

\* ---------------------------------------------------------------- item_prices_nok

\* the rate rows on or before the updated date of price row p, for its
\* currency
RatesFor(p) ==
    {c \in cc_rates : c.target_currency_code = p.currency.chars
                      /\ c.date <= p.updated_at \div DayTicks}

\* C18: the view holds exactly one row for every row of the price table; its
\* price is the stored price divided by the rate of a rate row of the
\* latest date among those on or before the price row's updated date for
\* the price row's currency, and null, the row still present, when there is
\* no such rate row
C18_ViewRowPerPriceRow ==
    vpc = "done" =>
        /\ Cardinality(view) = Cardinality(item_prices)
        /\ \A p \in item_prices :
             \E v \in view :
                /\ v.id = p.id
                /\ \A w \in view : w.id = p.id => w = v
                /\ RatesFor(p) = {} => v.price = Null
                /\ RatesFor(p) # {} =>
                     \E c \in RatesFor(p) :
                        /\ \A other \in RatesFor(p) : other.date <= c.date
                        /\ v.price.kind = "finite"
                        /\ v.price.num * c.rate = p.price * v.price.den

\* the view was read over two price rows: one with a rate of an earlier and
\* a different rate of a later date for its currency, one whose currency has
\* a rate only after its updated date
C18_Witness ==
    /\ vpc = "done"
    /\ Cardinality(view) = 2
    /\ \E p \in item_prices :
         \E c1, c2 \in RatesFor(p) : c1.date < c2.date /\ c1.rate > c2.rate
    /\ \E p \in item_prices :
         /\ RatesFor(p) = {}
         /\ \E c \in cc_rates : c.target_currency_code = p.currency.chars
    /\ \E v \in view : v.price = Null
    /\ \E v \in view : v.price # Null

\* ---------------------------------------------------------------- _execute_query

\* C21: _execute_query never lets a database Error reach its caller: a
\* failed connection attempt or a failed statement is reported and the call
\* returns normally; after a failed connection attempt no cursor.execute was
\* performed and _connection is None
C21_ExecuteQuerySwallowsErrors ==
    last_call.op = "_execute_query" =>
        /\ last_call.result.propagated = "none"
        /\ last_call.result.failed => last_call.result.reported
        /\ last_call.result.connect_failed =>
              /\ last_call.result.executes = 0
              /\ connection = "None"
        /\ ~last_call.result.connect_failed =>
              /\ last_call.result.executes = 1
              /\ connection = "open"

\* _execute_query was called on a connector whose connection had been
\* opened by an upsert and then lost, and the new connection attempt failed
C21_Witness ==
    /\ last_call.op = "_execute_query"
    /\ last_call.before = "closed"
    /\ last_call.result.connect_failed
    /\ last_call.result.reported
    /\ item_prices # {}
    /\ connection = "None"

\* ---------------------------------------------------------------- failed rows

\* two entries of the log are iterations over the same row of the same file
SameRow(i, k) == log[i].file = log[k].file /\ log[i].idx = log[k].idx

\* the check point at the end of a completed run
CheckPointAtEndOf(r) ==
    returns[CHOOSE n \in DOMAIN returns : returns[n].run = r].check_point

\* C22: a row whose upsert failed is never passed to the upsert again once
\* a row after it in replay order with a greater system_timestamp has been
\* applied, in the same or in a later run; and a later run passes a failed
\* row to the upsert again only if its system_timestamp is greater than the
\* check point at the end of the run in which it failed
C22_FailedRowNotRetriedAfterLaterSuccess ==
    /\ \A i, j, k \in DOMAIN log :
         (/\ i < j /\ j < k
          /\ Failed(log[i])
          /\ log[j].outcome = "executed"
          /\ log[j].ts > log[i].ts
          /\ SameRow(i, k)) => log[k].outcome = "skipped"
    /\ \A i, k \in DOMAIN log :
         (/\ Failed(log[i])
          /\ SameRow(i, k)
          /\ log[k].run > log[i].run
          /\ log[k].outcome # "skipped") => log[k].ts > CheckPointAtEndOf(log[i].run)

\* the upsert of a row raised, the row after it with a greater
\* system_timestamp was applied, and the next run skipped the failed row
C22_Witness ==
    /\ Len(log) = 4
    /\ log[1].outcome = "raised"
    /\ log[2].outcome = "executed"
    /\ log[2].ts > log[1].ts
    /\ log[3].run > log[1].run
    /\ SameRow(1, 3)
    /\ log[3].outcome = "skipped"
    /\ log[4].outcome = "skipped"

====
